---- MODULE Spec2Model ----
(***************************************************************************)
(* Model of cmd/main.go of go-awsbilling: the row decoder (NewLineItem,    *)
(* NewBill), the time-indexed store (Report.AddLineItem) and its queries   *)
(* (Report.FilterByTime, Report.GroupBy), driven by the row loop of        *)
(* NewReport and the query issued by main.                                 *)
(*                                                                         *)
(* Conventions.  A Go string is a sequence of one-character strings, so    *)
(* that splitting, joining and parsing are computed character by          *)
(* character.  A time.Time is the number of seconds since                  *)
(* 2020-01-01T00:00:00Z (all parsed times are UTC, so == on time.Time, the *)
(* map key equality, coincides with equality of instants).  A float64 is   *)
(* an integer: the numeric columns of the modelled rows hold integer       *)
(* decimal literals, on which float64 addition and comparison are exact.   *)
(***************************************************************************)
EXTENDS Integers, Sequences, FiniteSets, TLC

VARIABLES
    LineItems,  \* Report.LineItems: start instant -> sequence of items
    TimePts,    \* Report.TimePts: sequence of start instants
    scanned,    \* the rows the scanner of NewReport has delivered so far
    calls,      \* the items passed to AddLineItem so far, in call order
    err,        \* the error NewReport returned, "" while there is none
    ret,        \* the value returned with err: "none" while the function runs,
                \* "nil", or "r" for the pointer to the Report
    frame,      \* the position of a call of AddLineItem that runs step by step
    out         \* the value the last query returned, with its arguments

vars == <<LineItems, TimePts, scanned, calls, err, ret, frame, out>>

\* The number of rows of the input file.
MaxRows == 3

(***************************************************************************)
(* Strings and the standard-library conversions the decoder calls.         *)
(***************************************************************************)
Digits == <<"0", "1", "2", "3", "4", "5", "6", "7", "8", "9">>

IsDigit(c) == \E i \in 1..10 : Digits[i] = c

DigitVal(c) == (CHOOSE i \in 1..10 : Digits[i] = c) - 1

AllDigits(s) == \A i \in 1..Len(s) : IsDigit(s[i])

RECURSIVE Atoi(_)
Atoi(s) ==
    IF s = <<>> THEN 0
    ELSE 10 * Atoi(SubSeq(s, 1, Len(s) - 1)) + DigitVal(s[Len(s)])

\* strconv.ParseUint(s, 10, 64): one or more decimal digits, no sign.
ParseUint(s) ==
    IF s # <<>> /\ AllDigits(s)
    THEN [ok |-> TRUE, v |-> Atoi(s)]
    ELSE [ok |-> FALSE, v |-> 0]

\* strconv.FormatUint(n, 10): the shortest decimal representation.
RECURSIVE FormatUint(_)
FormatUint(n) ==
    IF n < 10 THEN <<Digits[n + 1]>>
    ELSE FormatUint(n \div 10) \o <<Digits[(n % 10) + 1]>>

\* strconv.ParseFloat(s, 64) on the literals of the modelled rows: an
\* optional sign followed by one or more decimal digits.  The empty string
\* and any other text is a syntax error, and the value returned with an
\* error is 0.
ParseFloat(s) ==
    LET body == IF s # <<>> /\ s[1] \in {"-", "+"} THEN Tail(s) ELSE s
    IN  IF body # <<>> /\ AllDigits(body)
        THEN [ok |-> TRUE,
              v |-> IF s[1] = "-" THEN 0 - Atoi(body) ELSE Atoi(body)]
        ELSE [ok |-> FALSE, v |-> 0]

\* strings.Split(s, sep) for a one-character separator.
RECURSIVE Split(_, _)
Split(s, sep) ==
    IF \E i \in 1..Len(s) : s[i] = sep
    THEN LET i == CHOOSE k \in 1..Len(s) :
                      s[k] = sep /\ \A m \in 1..(k - 1) : s[m] # sep
         IN  <<SubSeq(s, 1, i - 1)>> \o Split(SubSeq(s, i + 1, Len(s)), sep)
    ELSE <<s>>

\* strings.Join(parts, sep).
RECURSIVE Join(_, _)
Join(parts, sep) ==
    IF parts = <<>> THEN <<>>
    ELSE IF Len(parts) = 1 THEN parts[1]
    ELSE parts[1] \o sep \o Join(Tail(parts), sep)

IsLeap(y) == (y % 4 = 0) /\ ((y % 100 # 0) \/ (y % 400 = 0))

DaysIn(m, y) ==
    IF m = 2 THEN (IF IsLeap(y) THEN 29 ELSE 28)
    ELSE IF m \in {4, 6, 9, 11} THEN 30 ELSE 31

RECURSIVE DaysBeforeMonth(_, _)
DaysBeforeMonth(m, y) ==
    IF m = 1 THEN 0 ELSE DaysBeforeMonth(m - 1, y) + DaysIn(m - 1, y)

\* Days from 0000-01-01 to the first day of year y (proleptic Gregorian).
DaysBeforeYear(y) ==
    365 * y + ((y + 3) \div 4) - ((y + 99) \div 100) + ((y + 399) \div 400)

\* time.Parse(timeLayout, v) with timeLayout = "2006-01-02T15:04:05Z": a
\* four-digit year, two-digit month, day, hour, minute and second between the
\* literal characters of the layout, each in range, and nothing after the
\* final "Z".  The instant is in seconds since 2020-01-01T00:00:00Z.
ParseTime(v) ==
    LET num(a, b) == Atoi(SubSeq(v, a, b))
        shape == /\ Len(v) = 20
                 /\ \A i \in {1, 2, 3, 4, 6, 7, 9, 10, 12, 13, 15, 16, 18, 19} :
                        IsDigit(v[i])
                 /\ v[5] = "-" /\ v[8] = "-" /\ v[11] = "T"
                 /\ v[14] = ":" /\ v[17] = ":" /\ v[20] = "Z"
    IN  IF ~shape THEN [ok |-> FALSE, t |-> 0]
        ELSE LET y  == num(1, 4)
                 mo == num(6, 7)
                 d  == num(9, 10)
                 h  == num(12, 13)
                 mi == num(15, 16)
                 s  == num(18, 19)
             IN  IF /\ mo \in 1..12
                    /\ d >= 1 /\ d <= DaysIn(mo, y)
                    /\ h < 24 /\ mi < 60 /\ s < 60
                 THEN [ok |-> TRUE,
                       t |-> ((DaysBeforeYear(y) - DaysBeforeYear(2020)
                                + DaysBeforeMonth(mo, y) + (d - 1)) * 24 + h) * 3600
                             + mi * 60 + s]
                 ELSE [ok |-> FALSE, t |-> 0]

\* xxhash.Sum64String(id).  The library is not part of the repository; the
\* store only relies on it being a function of the identifier that is not
\* injective, which this small polynomial hash is.
Alphabet == <<"a", "b", "c", "d">>

CharCode(c) == CHOOSE i \in 1..Len(Alphabet) : Alphabet[i] = c

RECURSIVE Sum64String(_)
Sum64String(id) ==
    IF id = <<>> THEN 0
    ELSE (3 * Sum64String(SubSeq(id, 1, Len(id) - 1)) + CharCode(id[Len(id)])) % 5

(***************************************************************************)
(* The record decoder.                                                     *)
(***************************************************************************)
\* time.Time{}: the zero instant (year 1), which lies before every instant
\* that fits the representation; it is clamped to the smallest one.
ZeroTime == -2147483647

\* new(LineItem): every field holds its zero value and Bill is nil.
ZeroLineItem ==
    [UID |-> 0, Start |-> ZeroTime, End |-> ZeroTime,
     AvailabilityZone |-> <<>>, BlendedCost |-> 0, BlendedRate |-> 0,
     CurrencyCode |-> <<>>, LegalEntity |-> <<>>, LineItemDescription |-> <<>>,
     LineItemType |-> <<>>, NormalizationFactor |-> 0, Operation |-> <<>>,
     ProductCode |-> <<>>, ResourceID |-> <<>>, TaxType |-> <<>>,
     UnblendedCost |-> 0, UnblendedRate |-> 0, UsageAccountID |-> <<>>,
     UsageAmount |-> 0, UsageEndDate |-> ZeroTime, UsageStartDate |-> ZeroTime,
     UsageType |-> <<>>, Bill |-> "nil"]

Failure(msg) == [ok |-> FALSE, err |-> msg, v |-> "nil"]

Success(v) == [ok |-> TRUE, err |-> "", v |-> v]

\* Mutant of NewLineItem: an empty unblendedCost is tolerated like an empty
\* unblendedRate.
NewLineItemLenientCost(id, timeInterval, az, blendedCost, blendedRate, currencyCode, legalEntity, lineItemDescription, lineItemType, normalizationFactor, operation, productCode, resourceID, taxType, unblendedCost, unblendedRate, usageAccountID, usageAmount, usageStart, usageEnd, usageType) ==
    LET timeIntStr == Split(timeInterval, "/")
    IN
    IF Len(timeIntStr) # 2 THEN Failure("Invalid time interval")
    ELSE
    LET start == ParseTime(timeIntStr[1])
        end   == ParseTime(timeIntStr[2])
        bc    == ParseFloat(blendedCost)
        br    == ParseFloat(blendedRate)
        nf    == ParseFloat(normalizationFactor)
        uc    == ParseFloat(unblendedCost)
        ur    == ParseFloat(unblendedRate)
        us    == ParseTime(usageStart)
        ue    == ParseTime(usageEnd)
    IN
    IF ~start.ok THEN Failure("Could not parse start interval")
    ELSE IF ~end.ok THEN Failure("Coult not parse end interval")
    ELSE IF ~bc.ok THEN Failure("Could not parse blendedCost")
    ELSE IF ~br.ok THEN Failure("Could not parse blendedRate")
    ELSE IF ~nf.ok /\ normalizationFactor # <<>>
         THEN Failure("Could not parse normalizationFactor")
    ELSE IF ~uc.ok /\ unblendedCost # <<>>
         THEN Failure("Could not parse unblendedCost")
    ELSE IF ~ur.ok /\ unblendedRate # <<>>
         THEN Failure("Could not parse unblendedRate")
    ELSE IF ~us.ok THEN Failure("Could not parse start interval")
    ELSE IF ~ue.ok THEN Failure("Coult not parse end interval")
    ELSE Success([ZeroLineItem EXCEPT
                    !.UID = Sum64String(id),
                    !.Start = start.t,
                    !.End = end.t,
                    !.BlendedCost = bc.v,
                    !.BlendedRate = br.v,
                    !.NormalizationFactor = nf.v,
                    !.UnblendedCost = uc.v,
                    !.UnblendedRate = ur.v,
                    !.UsageStartDate = us.t,
                    !.UsageEndDate = ue.t,
                    !.CurrencyCode = currencyCode,
                    !.LegalEntity = legalEntity,
                    !.LineItemDescription = lineItemDescription,
                    !.LineItemType = lineItemType,
                    !.Operation = operation,
                    !.ProductCode = productCode,
                    !.ResourceID = resourceID,
                    !.TaxType = taxType])

\* Mutant of NewLineItem: an interval of more than two parts is accepted
\* (len(timeIntStr) < 2).
NewLineItemAtLeastTwo(id, timeInterval, az, blendedCost, blendedRate, currencyCode, legalEntity, lineItemDescription, lineItemType, normalizationFactor, operation, productCode, resourceID, taxType, unblendedCost, unblendedRate, usageAccountID, usageAmount, usageStart, usageEnd, usageType) ==
    LET timeIntStr == Split(timeInterval, "/")
    IN
    IF Len(timeIntStr) < 2 THEN Failure("Invalid time interval")
    ELSE
    LET start == ParseTime(timeIntStr[1])
        end   == ParseTime(timeIntStr[2])
        bc    == ParseFloat(blendedCost)
        br    == ParseFloat(blendedRate)
        nf    == ParseFloat(normalizationFactor)
        uc    == ParseFloat(unblendedCost)
        ur    == ParseFloat(unblendedRate)
        us    == ParseTime(usageStart)
        ue    == ParseTime(usageEnd)
    IN
    IF ~start.ok THEN Failure("Could not parse start interval")
    ELSE IF ~end.ok THEN Failure("Coult not parse end interval")
    ELSE IF ~bc.ok THEN Failure("Could not parse blendedCost")
    ELSE IF ~br.ok THEN Failure("Could not parse blendedRate")
    ELSE IF ~nf.ok /\ normalizationFactor # <<>>
         THEN Failure("Could not parse normalizationFactor")
    ELSE IF ~uc.ok THEN Failure("Could not parse unblendedCost")
    ELSE IF ~ur.ok /\ unblendedRate # <<>>
         THEN Failure("Could not parse unblendedRate")
    ELSE IF ~us.ok THEN Failure("Could not parse start interval")
    ELSE IF ~ue.ok THEN Failure("Coult not parse end interval")
    ELSE Success([ZeroLineItem EXCEPT
                    !.UID = Sum64String(id),
                    !.Start = start.t,
                    !.End = end.t,
                    !.BlendedCost = bc.v,
                    !.BlendedRate = br.v,
                    !.NormalizationFactor = nf.v,
                    !.UnblendedCost = uc.v,
                    !.UnblendedRate = ur.v,
                    !.UsageStartDate = us.t,
                    !.UsageEndDate = ue.t,
                    !.CurrencyCode = currencyCode,
                    !.LegalEntity = legalEntity,
                    !.LineItemDescription = lineItemDescription,
                    !.LineItemType = lineItemType,
                    !.Operation = operation,
                    !.ProductCode = productCode,
                    !.ResourceID = resourceID,
                    !.TaxType = taxType])

\* NewLineItem: the checks in source order, each returning (nil, error) on
\* failure; the item returned holds the fields the function assigns.
NewLineItem(id, timeInterval, az, blendedCost, blendedRate, currencyCode, legalEntity, lineItemDescription, lineItemType, normalizationFactor, operation, productCode, resourceID, taxType, unblendedCost, unblendedRate, usageAccountID, usageAmount, usageStart, usageEnd, usageType) ==
    LET timeIntStr == Split(timeInterval, "/")
    IN
    IF Len(timeIntStr) # 2 THEN Failure("Invalid time interval")
    ELSE
    LET start == ParseTime(timeIntStr[1])
        end   == ParseTime(timeIntStr[2])
        bc    == ParseFloat(blendedCost)
        br    == ParseFloat(blendedRate)
        nf    == ParseFloat(normalizationFactor)
        uc    == ParseFloat(unblendedCost)
        ur    == ParseFloat(unblendedRate)
        us    == ParseTime(usageStart)
        ue    == ParseTime(usageEnd)
    IN
    IF ~start.ok THEN Failure("Could not parse start interval")
    ELSE IF ~end.ok THEN Failure("Coult not parse end interval")
    ELSE IF ~bc.ok THEN Failure("Could not parse blendedCost")
    ELSE IF ~br.ok THEN Failure("Could not parse blendedRate")
    ELSE IF ~nf.ok /\ normalizationFactor # <<>>
         THEN Failure("Could not parse normalizationFactor")
    ELSE IF ~uc.ok THEN Failure("Could not parse unblendedCost")
    ELSE IF ~ur.ok /\ unblendedRate # <<>>
         THEN Failure("Could not parse unblendedRate")
    ELSE IF ~us.ok THEN Failure("Could not parse start interval")
    ELSE IF ~ue.ok THEN Failure("Coult not parse end interval")
    ELSE Success([ZeroLineItem EXCEPT
                    !.UID = Sum64String(id),
                    !.Start = start.t,
                    !.End = end.t,
                    !.BlendedCost = bc.v,
                    !.BlendedRate = br.v,
                    !.NormalizationFactor = nf.v,
                    !.UnblendedCost = uc.v,
                    !.UnblendedRate = ur.v,
                    !.UsageStartDate = us.t,
                    !.UsageEndDate = ue.t,
                    !.CurrencyCode = currencyCode,
                    !.LegalEntity = legalEntity,
                    !.LineItemDescription = lineItemDescription,
                    !.LineItemType = lineItemType,
                    !.Operation = operation,
                    !.ProductCode = productCode,
                    !.ResourceID = resourceID,
                    !.TaxType = taxType])

\* NewBill.
NewBill(entity, billType, invoiceID, payerAccountID, start, end) ==
    LET pa == ParseUint(payerAccountID)
        st == ParseTime(start)
        en == ParseTime(end)
    IN
    IF ~pa.ok THEN Failure("Unable to parse PayerAccountID")
    ELSE IF ~st.ok THEN Failure("Could not parse start interval")
    ELSE IF ~en.ok THEN Failure("Coult not parse end interval")
    ELSE Success([BillingEntity |-> entity, BillType |-> billType,
                  InvoiceID |-> invoiceID, PayerAccountID |-> pa.v,
                  BillingPeriodEndDate |-> en.t,
                  BillingPeriodStartDate |-> st.t])

\* One iteration of the row loop of NewReport up to the call of AddLineItem:
\* parts[headerIdx[name]] is row[name].  The blendedRate argument is given the
\* lineItem/BlendedCost column, as in the source.
DecodeRow(row) ==
    LET l == NewLineItem(
                row["identity/LineItemId"],
                row["identity/TimeInterval"],
                row["lineItem/AvailabilityZone"],
                row["lineItem/BlendedCost"],
                row["lineItem/BlendedCost"],
                row["lineItem/CurrencyCode"],
                row["lineItem/LegalEntity"],
                row["lineItem/LineItemDescription"],
                row["lineItem/LineItemType"],
                row["lineItem/NormalizationFactor"],
                row["lineItem/Operation"],
                row["lineItem/ProductCode"],
                row["lineItem/ResourceId"],
                row["lineItem/TaxType"],
                row["lineItem/UnblendedCost"],
                row["lineItem/UnblendedRate"],
                row["lineItem/UsageAccountId"],
                row["lineItem/UsageAmount"],
                row["lineItem/UsageStartDate"],
                row["lineItem/UsageEndDate"],
                row["lineItem/UsageType"])
    IN
    IF ~l.ok THEN l
    ELSE LET b == NewBill(
                    row["bill/Entity"],
                    row["bill/BillType"],
                    row["bill/InvoiceId"],
                    row["bill/PayerAccountId"],
                    row["bill/BillingPeriodStartDate"],
                    row["bill/BillingPeriodEndDate"])
         IN  IF ~b.ok THEN b
             ELSE Success([l.v EXCEPT !.Bill = b.v])

(***************************************************************************)
(* The store.  A Report r is [LineItems |-> ..., TimePts |-> ...].         *)
(***************************************************************************)
\* m[k] of a Go map of slices: the nil (empty) slice when k is no key.
Get(m, k) == IF k \in DOMAIN m THEN m[k] ELSE <<>>

\* m[k] = v.
Put(m, k, v) == [x \in (DOMAIN m) \cup {k} |-> IF x = k THEN v ELSE m[x]]

Min(a, b) == IF a <= b THEN a ELSE b

\* Mutant of Copy: the elements are moved one by one from the front, so an
\* overlapping move to the right repeats the first element.
RECURSIVE CopyForwardFrom(_, _, _, _, _)
CopyForwardFrom(s, d, f, k, n) ==
    IF k > n THEN s
    ELSE CopyForwardFrom([s EXCEPT ![d + k] = s[f + k]], d, f, k + 1, n)

CopyForward(s, d, f) ==
    CopyForwardFrom(s, d, f, 1, Min(Len(s) - d, Len(s) - f))

\* copy(s[d:], s[f:]) with Go's 0-based offsets: min(len(s)-d, len(s)-f)
\* elements are moved as if through a temporary (overlap is handled).
Copy(s, d, f) ==
    LET n == Min(Len(s) - d, Len(s) - f)
    IN  [i \in 1..Len(s) |-> IF i > d /\ i <= d + n THEN s[f + (i - d)] ELSE s[i]]

\* The backward scan and the three insertions of AddLineItem.  j is the
\* 1-based position of the last time point that t is After.
InsertTimePt(tp, t) ==
    LET after == {j \in 1..Len(tp) : t > tp[j]}
    IN  IF after # {}
        THEN LET j == CHOOSE x \in after : \A y \in after : y <= x
             IN  IF j = Len(tp)
                 THEN Append(tp, t)
                 ELSE [Copy(Append(tp, ZeroTime), j + 1, j) EXCEPT ![j + 1] = t]
        ELSE [Copy(Append(tp, ZeroTime), 1, 0) EXCEPT ![1] = t]

\* Mutant of AddLineItem: an item whose UID is already in the bucket replaces
\* the stored one.
AddLineItemReplace(r, l) ==
    LET lids == Get(r.LineItems, l.Start)
    IN  IF l.Start \in DOMAIN r.LineItems
        THEN IF \E i \in 1..Len(lids) : lids[i].UID = l.UID
             THEN [r EXCEPT !.LineItems =
                       Put(r.LineItems, l.Start,
                           [i \in 1..Len(lids) |->
                               IF lids[i].UID = l.UID THEN l ELSE lids[i]])]
             ELSE [r EXCEPT !.LineItems =
                       Put(r.LineItems, l.Start, Append(r.LineItems[l.Start], l))]
        ELSE [LineItems |-> Put(r.LineItems, l.Start, <<l>>),
              TimePts |-> InsertTimePt(r.TimePts, l.Start)]

\* Mutant of AddLineItem: the bucket is appended to in a local copy only
\* (lids = append(lids, l)), so the item is lost.
AddLineItemLostAppend(r, l) ==
    LET lids == Get(r.LineItems, l.Start)
    IN  IF l.Start \in DOMAIN r.LineItems
        THEN r
        ELSE [LineItems |-> Put(r.LineItems, l.Start, <<l>>),
              TimePts |-> InsertTimePt(r.TimePts, l.Start)]

\* Mutant of AddLineItem: only the last item of the bucket is compared.
AddLineItemCheckLast(r, l) ==
    LET lids == Get(r.LineItems, l.Start)
    IN  IF l.Start \in DOMAIN r.LineItems
        THEN IF lids # <<>> /\ lids[Len(lids)].UID = l.UID
             THEN r
             ELSE [r EXCEPT !.LineItems =
                       Put(r.LineItems, l.Start, Append(r.LineItems[l.Start], l))]
        ELSE [LineItems |-> Put(r.LineItems, l.Start, <<l>>),
              TimePts |-> InsertTimePt(r.TimePts, l.Start)]

\* Mutant of AddLineItem: a new item is put at the front of its bucket.
AddLineItemPrepend(r, l) ==
    LET lids == Get(r.LineItems, l.Start)
    IN  IF l.Start \in DOMAIN r.LineItems
        THEN IF \E i \in 1..Len(lids) : lids[i].UID = l.UID
             THEN r
             ELSE [r EXCEPT !.LineItems =
                       Put(r.LineItems, l.Start, <<l>> \o r.LineItems[l.Start])]
        ELSE [LineItems |-> Put(r.LineItems, l.Start, <<l>>),
              TimePts |-> InsertTimePt(r.TimePts, l.Start)]

\* Report.AddLineItem.
AddLineItem(r, l) ==
    LET lids == Get(r.LineItems, l.Start)
    IN  IF l.Start \in DOMAIN r.LineItems
        THEN IF \E i \in 1..Len(lids) : lids[i].UID = l.UID
             THEN r
             ELSE [r EXCEPT !.LineItems =
                       Put(r.LineItems, l.Start, Append(r.LineItems[l.Start], l))]
        ELSE [LineItems |-> Put(r.LineItems, l.Start, <<l>>),
              TimePts |-> InsertTimePt(r.TimePts, l.Start)]

\* Mutant of Collect: an item whose End equals s is kept (!End.Before(s)).
RECURSIVE CollectNotBefore(_, _, _, _)
CollectNotBefore(r, i, n, s) ==
    IF i > n THEN <<>>
    ELSE SelectSeq(Get(r.LineItems, r.TimePts[i]), LAMBDA item : item.End >= s)
         \o CollectNotBefore(r, i + 1, n, s)

\* The items of the buckets of TimePts[i..n] whose End is After s, in order.
RECURSIVE Collect(_, _, _, _)
Collect(r, i, n, s) ==
    IF i > n THEN <<>>
    ELSE SelectSeq(Get(r.LineItems, r.TimePts[i]), LAMBDA item : item.End > s)
         \o Collect(r, i + 1, n, s)

\* Report.FilterByTime.
FilterByTime(r, s, e) ==
    LET later  == {i \in 1..Len(r.TimePts) : r.TimePts[i] > e}
        endIdx == IF later = {} THEN Len(r.TimePts)
                  ELSE (CHOOSE x \in later : \A y \in later : x <= y) - 1
    IN  Collect(r, 1, endIdx, s)

\* Mutant of FilterByTimeEffect: the kept items of a bucket are collected in
\* the bucket's own storage (l := items[:0]), which moves them to its front.
FilterInPlace(r, s, e) ==
    LET later  == {i \in 1..Len(r.TimePts) : r.TimePts[i] > e}
        endIdx == IF later = {} THEN Len(r.TimePts)
                  ELSE (CHOOSE x \in later : \A y \in later : x <= y) - 1
        seen   == {r.TimePts[i] : i \in 1..endIdx}
        kept(b) == SelectSeq(b, LAMBDA item : item.End > s)
    IN  [r EXCEPT !.LineItems =
            [k \in DOMAIN r.LineItems |->
                IF k \in seen
                THEN kept(r.LineItems[k])
                     \o SubSeq(r.LineItems[k], Len(kept(r.LineItems[k])) + 1,
                               Len(r.LineItems[k]))
                ELSE r.LineItems[k]]]

\* The report after FilterByTime(s, e).  The receiver is a copy of the Report
\* whose map and slice share their storage with the caller's; the function
\* assigns to no field, bucket or time point, reads of a map add no key, and
\* the result is built in a slice of its own (var l []*LineItem).
FilterByTimeEffect(r, s, e) == r

\* The report after GroupBy(fields, s, e): the effect of its call of
\* FilterByTime; the sums go to a map of its own (res).
GroupByEffect(r, fields, s, e) == FilterByTimeEffect(r, s, e)

\* Mutant of FieldParts: an unrecognised name appends an empty key part.
FieldPartsEmptySegment(item, field) ==
    CASE field = "lineItem/LineItemType"   -> <<item.LineItemType>>
      [] field = "lineItem/Operation"      -> <<item.Operation>>
      [] field = "lineItem/ProductCode"    -> <<item.ProductCode>>
      [] field = "lineItem/ResourceId"     -> <<item.ResourceID>>
      [] field = "lineItem/TaxType"        -> <<item.TaxType>>
      [] field = "lineItem/UsageAccountId" -> <<item.UsageAccountID>>
      [] field = "lineItem/UsageType"      -> <<item.UsageType>>
      [] field = "bill/PayerAccountId"     -> <<FormatUint(item.Bill.PayerAccountID)>>
      [] OTHER                             -> << <<>> >>

\* The switch of GroupBy: the key parts one field name appends.
FieldParts(item, field) ==
    CASE field = "lineItem/LineItemType"   -> <<item.LineItemType>>
      [] field = "lineItem/Operation"      -> <<item.Operation>>
      [] field = "lineItem/ProductCode"    -> <<item.ProductCode>>
      [] field = "lineItem/ResourceId"     -> <<item.ResourceID>>
      [] field = "lineItem/TaxType"        -> <<item.TaxType>>
      [] field = "lineItem/UsageAccountId" -> <<item.UsageAccountID>>
      [] field = "lineItem/UsageType"      -> <<item.UsageType>>
      [] field = "bill/PayerAccountId"     -> <<FormatUint(item.Bill.PayerAccountID)>>
      [] OTHER                             -> <<>>

RECURSIVE KeyParts(_, _)
KeyParts(item, fields) ==
    IF fields = <<>> THEN <<>>
    ELSE FieldParts(item, Head(fields)) \o KeyParts(item, Tail(fields))

\* Mutant of GroupKey: the key is the first part alone.
GroupKeyFirstPart(item, fields) ==
    IF KeyParts(item, fields) = <<>> THEN <<>> ELSE Head(KeyParts(item, fields))

\* key := strings.Join(keyParts, "_").
GroupKey(item, fields) == Join(KeyParts(item, fields), <<"_">>)

\* Mutant of Accumulate: the cost is assigned instead of added.
AccumulateOverwrite(res, key, item) ==
    IF item.UnblendedCost > 0
    THEN Put(res, key, item.UnblendedCost)
    ELSE res

\* Mutant of Accumulate: a cost of 0 is accumulated too.
AccumulateNonNegative(res, key, item) ==
    IF item.UnblendedCost >= 0
    THEN Put(res, key, (IF key \in DOMAIN res THEN res[key] ELSE 0)
                       + item.UnblendedCost)
    ELSE res

\* if item.UnblendedCost > 0 { res[key] += item.UnblendedCost }
Accumulate(res, key, item) ==
    IF item.UnblendedCost > 0
    THEN Put(res, key, (IF key \in DOMAIN res THEN res[key] ELSE 0)
                       + item.UnblendedCost)
    ELSE res

RECURSIVE GroupLoop(_, _, _)
GroupLoop(res, items, fields) ==
    IF items = <<>> THEN res
    ELSE GroupLoop(Accumulate(res, GroupKey(Head(items), fields), Head(items)),
                   Tail(items), fields)

\* Report.GroupBy: a map from composite key to summed cost.
GroupBy(r, fields, s, e) ==
    GroupLoop([k \in {} |-> 0], FilterByTime(r, s, e), fields)

(***************************************************************************)
(* The inputs: the rows a report file may hold and the queries a caller    *)
(* may issue.                                                              *)
(***************************************************************************)
\* "2020-05-01T0h:00:00Z" for an hour h in 0..9.
Stamp(h) ==
    <<"2", "0", "2", "0", "-", "0", "5", "-", "0", "1", "T",
      "0", Digits[h + 1], ":", "0", "0", ":", "0", "0", "Z">>

\* A well-formed row: identifier id, interval [Stamp(sh), Stamp(eh)],
\* unblended cost, product code, operation, usage account and payer account.
MkRow(id, sh, eh, cost, product, operation, account, payer) ==
    ("identity/LineItemId" :> id)
    @@ ("identity/TimeInterval" :> Stamp(sh) \o <<"/">> \o Stamp(eh))
    @@ ("lineItem/AvailabilityZone" :> <<"z">>)
    @@ ("lineItem/BlendedCost" :> cost)
    @@ ("lineItem/BlendedRate" :> <<"1">>)
    @@ ("lineItem/CurrencyCode" :> <<"U", "S", "D">>)
    @@ ("lineItem/LegalEntity" :> <<"L">>)
    @@ ("lineItem/LineItemDescription" :> <<"d">>)
    @@ ("lineItem/LineItemType" :> <<"U">>)
    @@ ("lineItem/NormalizationFactor" :> <<>>)
    @@ ("lineItem/Operation" :> operation)
    @@ ("lineItem/ProductCode" :> product)
    @@ ("lineItem/ResourceId" :> <<"r">>)
    @@ ("lineItem/TaxType" :> <<>>)
    @@ ("lineItem/UnblendedCost" :> cost)
    @@ ("lineItem/UnblendedRate" :> <<"1">>)
    @@ ("lineItem/UsageAccountId" :> account)
    @@ ("lineItem/UsageAmount" :> <<"1">>)
    @@ ("lineItem/UsageStartDate" :> Stamp(sh))
    @@ ("lineItem/UsageEndDate" :> Stamp(eh))
    @@ ("lineItem/UsageType" :> <<"t">>)
    @@ ("bill/Entity" :> <<"A", "W", "S">>)
    @@ ("bill/BillType" :> <<"A">>)
    @@ ("bill/InvoiceId" :> <<"1">>)
    @@ ("bill/PayerAccountId" :> payer)
    @@ ("bill/BillingPeriodStartDate" :> Stamp(0))
    @@ ("bill/BillingPeriodEndDate" :> Stamp(9))

\* Rows that decode.  Identifiers "a" and "ac" have the same hash; the rows
\* cover four start times, shared and distinct, a repeated (identifier,
\* start) with different contents, End = Start, End before Start, costs that
\* are positive, zero and negative, and values that contain the "_" the keys
\* are joined with.
GoodRows ==
    { MkRow(<<"a">>, 0, 1, <<"1", "0">>, <<"A">>, <<"x">>, <<"1", "1">>, <<"0", "0", "7">>),
      MkRow(<<"b">>, 0, 1, <<"5">>, <<"A">>, <<"x">>, <<"2", "2">>, <<"7">>),
      MkRow(<<"a">>, 1, 2, <<"3">>, <<"B">>, <<"x">>, <<"1", "1">>, <<"7">>),
      MkRow(<<"b">>, 1, 1, <<"0">>, <<"B">>, <<"y">>, <<"2", "2">>, <<"8">>),
      MkRow(<<"a">>, 2, 3, <<"-", "1">>, <<"C">>, <<"x">>, <<"1", "1">>, <<"7">>),
      MkRow(<<"b">>, 2, 1, <<"5">>, <<"A", "_", "x">>, <<"y">>, <<"2", "2">>, <<"8">>),
      MkRow(<<"a">>, 0, 2, <<"5">>, <<"B">>, <<"x">>, <<"3", "3">>, <<"7">>),
      MkRow(<<"a", "c">>, 1, 2, <<"3">>, <<"A">>, <<"x", "_", "y">>, <<"1", "1">>, <<"7">>),
      MkRow(<<"b">>, 3, 4, <<"2">>, <<"C">>, <<"y">>, <<"2", "2">>, <<"8">>) }

\* Rows that do not decode.
BadRows ==
    { [MkRow(<<"a">>, 0, 1, <<"1">>, <<"A">>, <<"x">>, <<"1">>, <<"7">>)
          EXCEPT !["identity/TimeInterval"] = Stamp(0)],
      [MkRow(<<"b">>, 1, 2, <<"1">>, <<"A">>, <<"x">>, <<"1">>, <<"7">>)
          EXCEPT !["lineItem/UnblendedCost"] = <<"x">>],
      [MkRow(<<"b">>, 2, 3, <<"1">>, <<"A">>, <<"x">>, <<"1">>, <<"7">>)
          EXCEPT !["bill/PayerAccountId"] = <<"-", "7">>] }

Rows == GoodRows \cup BadRows

\* The instants a query window may start or end at.
QueryTimes == {ParseTime(Stamp(h)).t : h \in {0, 1, 2}}

\* The field lists a caller may group by; the last one names every
\* recognised field, in the order of the switch.
FieldLists ==
    { <<"lineItem/ProductCode">>,
      <<"lineItem/ProductCode", "lineItem/Operation">>,
      <<"lineItem/Region", "lineItem/ProductCode", "lineItem/Tags">>,
      <<"lineItem/UsageAccountId">>,
      <<"lineItem/LineItemType", "lineItem/Operation", "lineItem/ProductCode",
        "lineItem/ResourceId", "lineItem/TaxType", "lineItem/UsageAccountId",
        "lineItem/UsageType", "bill/PayerAccountId">> }

(***************************************************************************)
(* The state machine.                                                      *)
(***************************************************************************)
Report == [LineItems |-> LineItems, TimePts |-> TimePts]

NoResult == [op |-> "none", fields |-> <<>>, s |-> 0, e |-> 0, val |-> <<>>]

\* No call of AddLineItem is under way.
Idle == [at |-> "idle"]

\* r := &Report{LineItems: make(map[time.Time][]*LineItem)}, before the
\* first row is read.
Init ==
    /\ LineItems = [k \in {} |-> <<>>]
    /\ TimePts = <<>>
    /\ scanned = <<>>
    /\ calls = <<>>
    /\ err = ""
    /\ ret = "none"
    /\ frame = Idle
    /\ out = NoResult

\* Mutant of NewReportRow: a decoding error ends NewReport with (r, err), the
\* report loaded so far.
NewReportRowReturnsReport(row) ==
    /\ ret = "none"
    /\ Len(scanned) < MaxRows
    /\ scanned' = Append(scanned, row)
    /\ LET l == DecodeRow(row)
       IN  IF l.ok
           THEN LET r == AddLineItem(Report, l.v)
                IN  /\ LineItems' = r.LineItems
                    /\ TimePts' = r.TimePts
                    /\ calls' = Append(calls, l.v)
                    /\ UNCHANGED <<err, ret>>
           ELSE /\ err' = l.err
                /\ ret' = "r"
                /\ UNCHANGED <<LineItems, TimePts, calls>>
    /\ UNCHANGED <<frame, out>>

\* One iteration of the loop of NewReport: the scanner delivers a row; a
\* decoding error ends NewReport with (nil, err), otherwise the item is
\* added to the report.
NewReportRow(row) ==
    /\ ret = "none"
    /\ Len(scanned) < MaxRows
    /\ scanned' = Append(scanned, row)
    /\ LET l == DecodeRow(row)
       IN  IF l.ok
           THEN LET r == AddLineItem(Report, l.v)
                IN  /\ LineItems' = r.LineItems
                    /\ TimePts' = r.TimePts
                    /\ calls' = Append(calls, l.v)
                    /\ UNCHANGED <<err, ret>>
           ELSE /\ err' = l.err
                /\ ret' = "nil"
                /\ UNCHANGED <<LineItems, TimePts, calls>>
    /\ UNCHANGED <<frame, out>>

\* The scanner reports the end of the input and NewReport returns (r, nil);
\* closing the file and the gzip reader succeeds.
NewReportReturn ==
    /\ ret = "none"
    /\ ret' = "r"
    /\ UNCHANGED <<LineItems, TimePts, scanned, calls, err, frame, out>>

\* The query of a run on the report NewReport returned (main issues one
\* query and prints its result): a call of FilterByTime.
FilterByTimeCall(s, e) ==
    /\ ret = "r"
    /\ out.op = "none"
    /\ out' = [op |-> "FilterByTime", fields |-> <<>>, s |-> s, e |-> e,
               val |-> FilterByTime(Report, s, e)]
    /\ LineItems' = FilterByTimeEffect(Report, s, e).LineItems
    /\ TimePts' = FilterByTimeEffect(Report, s, e).TimePts
    /\ UNCHANGED <<scanned, calls, err, ret, frame>>

\* The query of a run, as main issues it: a call of GroupBy.
GroupByCall(fields, s, e) ==
    /\ ret = "r"
    /\ out.op = "none"
    /\ out' = [op |-> "GroupBy", fields |-> fields, s |-> s, e |-> e,
               val |-> GroupBy(Report, fields, s, e)]
    /\ LineItems' = GroupByEffect(Report, fields, s, e).LineItems
    /\ TimePts' = GroupByEffect(Report, fields, s, e).TimePts
    /\ UNCHANGED <<scanned, calls, err, ret, frame>>

Next ==
    \/ \E row \in Rows : NewReportRow(row)
    \/ NewReportReturn
    \/ \E s \in QueryTimes, e \in QueryTimes : FilterByTimeCall(s, e)
    \/ \E fields \in FieldLists, s \in QueryTimes, e \in QueryTimes :
           GroupByCall(fields, s, e)

Spec == Init /\ [][Next]_vars

(***************************************************************************)
(* The decoder on its own: one call of NewLineItem, each parameter given   *)
(* the column of its name.                                                 *)
(***************************************************************************)
\* Texts of a numeric column: numbers, and texts that are no number.
ValidNumbers == {<<"5">>, <<"-", "1">>}

InvalidNumbers == {<<"x">>}

NumberTexts == ValidNumbers \cup InvalidNumbers \cup {<<>>}

\* Texts of a timestamp: the timestamps of two hours, and texts that are none.
ValidStamps == {Stamp(0), Stamp(1)}

InvalidStamps == {<<>>, <<"x">>, [Stamp(1) EXCEPT ![6] = "1", ![7] = "3"]}

\* Interval texts with no, one and two separators.
IntervalTexts ==
    {Stamp(0), Stamp(0) \o <<"/">> \o Stamp(1) \o <<"/">> \o Stamp(1)}
    \cup {a \o <<"/">> \o b : a \in ValidStamps \cup InvalidStamps,
                             b \in ValidStamps \cup InvalidStamps}

DecoderRows ==
    {[MkRow(<<"a">>, 0, 1, <<"5">>, <<"A">>, <<"x">>, <<"1", "1">>, <<"7">>) EXCEPT
         !["identity/TimeInterval"] = ti,
         !["lineItem/BlendedCost"] = bc,
         !["lineItem/BlendedRate"] = br,
         !["lineItem/NormalizationFactor"] = nf,
         !["lineItem/UnblendedCost"] = uc,
         !["lineItem/UnblendedRate"] = ur] :
        ti \in IntervalTexts, bc \in NumberTexts, br \in NumberTexts,
        nf \in NumberTexts, uc \in NumberTexts, ur \in NumberTexts}

\* A call of NewLineItem with the columns of a row as its arguments.
CallNewLineItem(row) ==
    NewLineItem(row["identity/LineItemId"], row["identity/TimeInterval"], row["lineItem/AvailabilityZone"], row["lineItem/BlendedCost"], row["lineItem/BlendedRate"], row["lineItem/CurrencyCode"], row["lineItem/LegalEntity"], row["lineItem/LineItemDescription"], row["lineItem/LineItemType"], row["lineItem/NormalizationFactor"], row["lineItem/Operation"], row["lineItem/ProductCode"], row["lineItem/ResourceId"], row["lineItem/TaxType"], row["lineItem/UnblendedCost"], row["lineItem/UnblendedRate"], row["lineItem/UsageAccountId"], row["lineItem/UsageAmount"], row["lineItem/UsageStartDate"], row["lineItem/UsageEndDate"], row["lineItem/UsageType"])

\* The arguments of the call are the columns of the one row in scanned.
InitDecoder ==
    /\ LineItems = [k \in {} |-> <<>>]
    /\ TimePts = <<>>
    /\ \E row \in DecoderRows : scanned = <<row>>
    /\ calls = <<>>
    /\ err = ""
    /\ ret = "none"
    /\ frame = Idle
    /\ out = NoResult

\* NewLineItem returns (l, nil) or (nil, err): out.val holds the item
\* returned, and is empty for nil.
NewLineItemCall ==
    /\ out.op = "none"
    /\ LET l == CallNewLineItem(scanned[1])
       IN  /\ out' = [op |-> "NewLineItem", fields |-> <<>>, s |-> 0, e |-> 0,
                      val |-> IF l.ok THEN <<l.v>> ELSE <<>>]
           /\ err' = l.err
    /\ UNCHANGED <<LineItems, TimePts, scanned, calls, ret, frame>>

NextDecoder == NewLineItemCall

SpecDecoder == InitDecoder /\ [][NextDecoder]_vars

(***************************************************************************)
(* The earlier variant of the store: an Identity i is                      *)
(* [LineItemIDs |-> ..., TimePts |-> ...], held in the variables LineItems *)
(* and TimePts; its items are LineItemIDs.                                 *)
(***************************************************************************)
\* NewLineItemID: the Bill and LineItem pointers are nil until main sets them.
NewLineItemID(id, timeInterval) ==
    LET timeIntStr == Split(timeInterval, "/")
    IN
    IF Len(timeIntStr) # 2 THEN Failure("Invalid time interval")
    ELSE
    LET start == ParseTime(timeIntStr[1])
        end   == ParseTime(timeIntStr[2])
    IN
    IF ~start.ok THEN Failure("Could not parse start interval")
    ELSE IF ~end.ok THEN Failure("Coult not parse end interval")
    ELSE Success([UID |-> Sum64String(id), Start |-> start.t, End |-> end.t,
                  Bill |-> "nil", LineItem |-> "nil"])

\* The LineItem of the earlier variant, as new(LineItem) leaves it.
ZeroLineItemOfIdentity ==
    [AvailabilityZone |-> <<>>, BlendedCost |-> 0, BlendedRate |-> 0,
     CurrencyCode |-> <<>>, LegalEntity |-> <<>>, LineItemDescription |-> <<>>,
     LineItemType |-> <<>>, NormalizationFactor |-> 0, Operation |-> <<>>,
     ProductCode |-> <<>>, ResourceID |-> <<>>, TaxType |-> <<>>,
     UnblendedCost |-> 0, UnblendedRate |-> 0, UsageAccountID |-> <<>>,
     UsageAmount |-> 0, UsageEndDate |-> ZeroTime, UsageStartDate |-> ZeroTime,
     UsageType |-> <<>>]

\* NewLineItem of the earlier variant (nineteen parameters, no identifier and
\* no interval).
NewLineItemOfIdentity(az, blendedCost, blendedRate, currencyCode, legalEntity, lineItemDescription, lineItemType, normalizationFactor, operation, productCode, resourceID, taxType, unblendedCost, unblendedRate, usageAccountID, usageAmount, start, end, usageType) ==
    LET bc == ParseFloat(blendedCost)
        br == ParseFloat(blendedRate)
        nf == ParseFloat(normalizationFactor)
        uc == ParseFloat(unblendedCost)
        ur == ParseFloat(unblendedRate)
        us == ParseTime(start)
        ue == ParseTime(end)
    IN
    IF ~bc.ok THEN Failure("Could not parse blendedCost")
    ELSE IF ~br.ok THEN Failure("Could not parse blendedRate")
    ELSE IF ~nf.ok /\ normalizationFactor # <<>>
         THEN Failure("Could not parse normalizationFactor")
    ELSE IF ~uc.ok THEN Failure("Could not parse unblendedCost")
    ELSE IF ~ur.ok /\ unblendedRate # <<>>
         THEN Failure("Could not parse unblendedRate")
    ELSE IF ~us.ok THEN Failure("Could not parse start interval")
    ELSE IF ~ue.ok THEN Failure("Coult not parse end interval")
    ELSE Success([ZeroLineItemOfIdentity EXCEPT
                    !.BlendedCost = bc.v,
                    !.BlendedRate = br.v,
                    !.NormalizationFactor = nf.v,
                    !.UnblendedCost = uc.v,
                    !.UnblendedRate = ur.v,
                    !.UsageStartDate = us.t,
                    !.UsageEndDate = ue.t,
                    !.CurrencyCode = currencyCode,
                    !.LegalEntity = legalEntity,
                    !.LineItemDescription = lineItemDescription,
                    !.LineItemType = lineItemType,
                    !.Operation = operation,
                    !.ProductCode = productCode,
                    !.ResourceID = resourceID,
                    !.TaxType = taxType])

\* One iteration of the loop of the earlier main up to the call of
\* AddLineItemID: NewLineItemID, then NewBill (the same text in both
\* variants), then NewLineItem, the first error ending the decoding.
DecodeIdentityRow(row) ==
    LET l == NewLineItemID(row["identity/LineItemId"],
                           row["identity/TimeInterval"])
    IN
    IF ~l.ok THEN l
    ELSE
    LET b == NewBill(
                row["bill/Entity"],
                row["bill/BillType"],
                row["bill/InvoiceId"],
                row["bill/PayerAccountId"],
                row["bill/BillingPeriodStartDate"],
                row["bill/BillingPeriodEndDate"])
    IN
    IF ~b.ok THEN b
    ELSE
    LET li == NewLineItemOfIdentity(
                row["lineItem/AvailabilityZone"],
                row["lineItem/BlendedCost"],
                row["lineItem/BlendedCost"],
                row["lineItem/CurrencyCode"],
                row["lineItem/LegalEntity"],
                row["lineItem/LineItemDescription"],
                row["lineItem/LineItemType"],
                row["lineItem/NormalizationFactor"],
                row["lineItem/Operation"],
                row["lineItem/ProductCode"],
                row["lineItem/ResourceId"],
                row["lineItem/TaxType"],
                row["lineItem/UnblendedCost"],
                row["lineItem/UnblendedRate"],
                row["lineItem/UsageAccountId"],
                row["lineItem/UsageAmount"],
                row["lineItem/UsageStartDate"],
                row["lineItem/UsageEndDate"],
                row["lineItem/UsageType"])
    IN
    IF ~li.ok THEN li
    ELSE Success([l.v EXCEPT !.Bill = b.v, !.LineItem = li.v])

\* Identity.AddLineItemID.  When l.Start is a key, the bucket is read into the
\* local lids; a member with l.UID ends the call, and otherwise
\* lids = append(lids, l) assigns to the local only and the call returns: the
\* map keeps the bucket it had.  Every bucket is made as []*LineItemID{l}, of
\* length and capacity one, so that append writes to fresh storage.
AddLineItemID(i, l) ==
    LET lids == Get(i.LineItemIDs, l.Start)
    IN  IF l.Start \in DOMAIN i.LineItemIDs
        THEN IF \E n \in 1..Len(lids) : lids[n].UID = l.UID
             THEN i
             ELSE LET local == Append(lids, l) IN i
        ELSE [LineItemIDs |-> Put(i.LineItemIDs, l.Start, <<l>>),
              TimePts |-> InsertTimePt(i.TimePts, l.Start)]

\* identity := NewIdentity(), held in the variables of the store.
IdentityStore == [LineItemIDs |-> LineItems, TimePts |-> TimePts]

\* One iteration of the loop of the earlier main: a decoding error ends the
\* program (logger.Fatal), otherwise the item is added to the identity.
MainRow(row) ==
    /\ ret = "none"
    /\ Len(scanned) < MaxRows
    /\ scanned' = Append(scanned, row)
    /\ LET l == DecodeIdentityRow(row)
       IN  IF l.ok
           THEN LET i == AddLineItemID(IdentityStore, l.v)
                IN  /\ LineItems' = i.LineItemIDs
                    /\ TimePts' = i.TimePts
                    /\ calls' = Append(calls, l.v)
                    /\ UNCHANGED <<err, ret>>
           ELSE /\ err' = l.err
                /\ ret' = "fatal"
                /\ UNCHANGED <<LineItems, TimePts, calls>>
    /\ UNCHANGED <<frame, out>>

\* The scanner reports the end of the input: main prints the identity and
\* closes the file.
MainEnd ==
    /\ ret = "none"
    /\ ret' = "exit"
    /\ UNCHANGED <<LineItems, TimePts, scanned, calls, err, frame, out>>

NextIdentity ==
    \/ \E row \in Rows : MainRow(row)
    \/ MainEnd

SpecIdentity == Init /\ [][NextIdentity]_vars

(***************************************************************************)
(* AddLineItem statement by statement, for a caller that queries the       *)
(* report while an ingestion is under way.  frame is the position of the   *)
(* call: "written" after the map write of line 401, "grown" after the      *)
(* append of the placeholder, "copied" after the copy; with it are the     *)
(* item l, the report at the entry of the call and the position j the scan *)
(* found (1-based, 0 when no time point is before l.Start).  The query     *)
(* runs between two statements of the ingestion.                           *)
(***************************************************************************)
\* The rows ingested, in an order and with the repetitions the caller
\* chooses: three start times and a second identifier at one of them.
StepRows ==
    { MkRow(<<"a">>, 0, 1, <<"1", "0">>, <<"A">>, <<"x">>, <<"1", "1">>, <<"0", "0", "7">>),
      MkRow(<<"b">>, 0, 1, <<"5">>, <<"A">>, <<"x">>, <<"2", "2">>, <<"7">>),
      MkRow(<<"a">>, 1, 2, <<"3">>, <<"B">>, <<"x">>, <<"1", "1">>, <<"7">>),
      MkRow(<<"a">>, 2, 3, <<"-", "1">>, <<"C">>, <<"x">>, <<"1", "1">>, <<"7">>) }

\* Mutant of WriteBucket: the bucket is written to the map only when the
\* time point is placed.
WriteBucketDeferred(r, l) == r

\* r.LineItems[l.Start] = []*LineItem{l}
WriteBucket(r, l) == [r EXCEPT !.LineItems = Put(r.LineItems, l.Start, <<l>>)]

\* The backward scan: the last position whose time point l.Start is After,
\* 0 when there is none.
ScanTimePts(tp, t) ==
    LET after == {j \in 1..Len(tp) : t > tp[j]}
    IN  IF after = {} THEN 0 ELSE CHOOSE x \in after : \A y \in after : y <= x

\* r.TimePts = append(r.TimePts, time.Time{})
GrowTimePts(tp) == Append(tp, ZeroTime)

\* copy(r.TimePts[j+2:], r.TimePts[j+1:]) and copy(r.TimePts[1:], r.TimePts[:])
ShiftTimePts(tp, j) == Copy(tp, j + 1, j)

\* r.TimePts[j+1] = l.Start and r.TimePts[0] = l.Start
PlaceTimePt(tp, j, t) == [tp EXCEPT ![j + 1] = t]

\* The call up to its first return or its map write: a stored Start returns
\* at once, with the item appended unless its UID is in the bucket; a new
\* Start writes the bucket.
AddLineItemEnter(row) ==
    /\ frame.at = "idle"
    /\ Len(scanned) < MaxRows
    /\ scanned' = Append(scanned, row)
    /\ LET l == DecodeRow(row).v
       IN  /\ calls' = Append(calls, l)
           /\ IF l.Start \in DOMAIN LineItems
              THEN /\ LineItems' = AddLineItem(Report, l).LineItems
                   /\ frame' = [at |-> "idle", l |-> l, entry |-> Report, j |-> 0]
              ELSE /\ LineItems' = WriteBucket(Report, l).LineItems
                   /\ frame' = [at |-> "written", l |-> l, entry |-> Report, j |-> 0]
    /\ UNCHANGED <<TimePts, err, ret, out>>

\* The scan and the statement it leads to: the append of l.Start, which ends
\* the call, or the append of the placeholder.
AddLineItemScan ==
    /\ frame.at = "written"
    /\ LET j == ScanTimePts(TimePts, frame.l.Start)
       IN  IF j # 0 /\ j = Len(TimePts)
           THEN /\ TimePts' = Append(TimePts, frame.l.Start)
                /\ frame' = [frame EXCEPT !.at = "idle", !.j = j]
           ELSE /\ TimePts' = GrowTimePts(TimePts)
                /\ frame' = [frame EXCEPT !.at = "grown", !.j = j]
    /\ UNCHANGED <<LineItems, scanned, calls, err, ret, out>>

AddLineItemShift ==
    /\ frame.at = "grown"
    /\ TimePts' = ShiftTimePts(TimePts, frame.j)
    /\ frame' = [frame EXCEPT !.at = "copied"]
    /\ UNCHANGED <<LineItems, scanned, calls, err, ret, out>>

AddLineItemPlace ==
    /\ frame.at = "copied"
    /\ TimePts' = PlaceTimePt(TimePts, frame.j, frame.l.Start)
    /\ frame' = [frame EXCEPT !.at = "idle"]
    /\ UNCHANGED <<LineItems, scanned, calls, err, ret, out>>

\* The query of the run, at whatever position the ingestion is: out records
\* the position and the number of the call with the result.
FilterByTimeDuring(s, e) ==
    /\ out.op = "none"
    /\ out' = [op |-> "FilterByTime", fields |-> <<>>, s |-> s, e |-> e,
               val |-> FilterByTime(Report, s, e),
               at |-> frame.at, n |-> Len(calls)]
    /\ LineItems' = FilterByTimeEffect(Report, s, e).LineItems
    /\ TimePts' = FilterByTimeEffect(Report, s, e).TimePts
    /\ UNCHANGED <<scanned, calls, err, ret, frame>>

NextSteps ==
    \/ \E row \in StepRows : AddLineItemEnter(row)
    \/ AddLineItemScan
    \/ AddLineItemShift
    \/ AddLineItemPlace
    \/ \E s \in QueryTimes, e \in QueryTimes : FilterByTimeDuring(s, e)

SpecSteps == Init /\ [][NextSteps]_vars

(***************************************************************************)
(* Vocabulary of the properties.                                           *)
(***************************************************************************)
\* The places of the store: a key and a position in its bucket.
Slots == UNION {{<<k, i>> : i \in 1..Len(LineItems[k])} : k \in DOMAIN LineItems}

\* The items the store holds.
Stored == {LineItems[p[1]][p[2]] : p \in Slots}

StoredCount == Cardinality(Slots)

Range(seq) == {seq[i] : i \in 1..Len(seq)}

\* The calls that are the first of their (UID, Start) pair.
FirstCalls ==
    {i \in 1..Len(calls) :
        \A j \in 1..(i - 1) :
            ~(calls[j].UID = calls[i].UID /\ calls[j].Start = calls[i].Start)}

\* The position of the first call that passed this item.
CallIndex(item) ==
    CHOOSE i \in 1..Len(calls) :
        calls[i] = item /\ \A j \in 1..(i - 1) : calls[j] # item

RECURSIVE SumCost(_)
SumCost(items) ==
    IF items = <<>> THEN 0 ELSE Head(items).UnblendedCost + SumCost(Tail(items))

RecognizedFields ==
    {"lineItem/LineItemType", "lineItem/Operation", "lineItem/ProductCode",
     "lineItem/ResourceId", "lineItem/TaxType", "lineItem/UsageAccountId",
     "lineItem/UsageType", "bill/PayerAccountId"}

\* The value of a named attribute of a stored item, as text.
NamedValue(item, field) ==
    IF field = "lineItem/LineItemType" THEN item.LineItemType
    ELSE IF field = "lineItem/Operation" THEN item.Operation
    ELSE IF field = "lineItem/ProductCode" THEN item.ProductCode
    ELSE IF field = "lineItem/ResourceId" THEN item.ResourceID
    ELSE IF field = "lineItem/TaxType" THEN item.TaxType
    ELSE IF field = "lineItem/UsageAccountId" THEN item.UsageAccountID
    ELSE IF field = "lineItem/UsageType" THEN item.UsageType
    ELSE FormatUint(item.Bill.PayerAccountID)

\* The composite key of the claims: the values of the recognised names of
\* the list, in the order of the list, joined by "_".
CompositeKey(item, fields) ==
    LET known == SelectSeq(fields, LAMBDA f : f \in RecognizedFields)
    IN  Join([i \in 1..Len(known) |-> NamedValue(item, known[i])], <<"_">>)

\* The value a row supplies for a recognised column, as GroupBy renders a
\* value of that column's type (the payer account is a number).
RowValue(row, field) ==
    IF field = "bill/PayerAccountId"
    THEN FormatUint(ParseUint(row[field]).v)
    ELSE row[field]

(***************************************************************************)
(* C1.  After any sequence of AddLineItem calls, TimePts is strictly       *)
(* ascending, has no duplicate, and its set of elements is the key set of  *)
(* LineItems.                                                              *)
(***************************************************************************)
C1_SortedIndex ==
    /\ \A i \in 1..Len(TimePts), j \in 1..Len(TimePts) :
           i < j => TimePts[i] < TimePts[j]
    /\ Cardinality(Range(TimePts)) = Len(TimePts)
    /\ Range(TimePts) = DOMAIN LineItems

\* Three distinct start times arrived as: first, last, middle.
C1_Witness ==
    /\ Len(calls) = 3
    /\ calls[1].Start < calls[3].Start
    /\ calls[3].Start < calls[2].Start
    /\ Len(TimePts) = 3

(***************************************************************************)
(* C2.  FilterByTime(s, e) returns exactly the stored items with End       *)
(* strictly after s and Start at or before e, each exactly once.           *)
(***************************************************************************)
C2_FilterExact ==
    out.op = "FilterByTime" =>
        LET expected == {item \in Stored : item.End > out.s /\ item.Start <= out.e}
        IN  /\ Range(out.val) = expected
            /\ Len(out.val) = Cardinality(expected)

\* A query that excludes an item with End = s and includes one with Start = e.
C2_Witness ==
    /\ out.op = "FilterByTime"
    /\ \E item \in Stored : item.End = out.s /\ item.Start <= out.e
    /\ \E item \in Range(out.val) : item.Start = out.e
    /\ \E item \in Stored : item.Start > out.e /\ item.End > out.s

(***************************************************************************)
(* C3.  AddLineItem with an item whose UID is already in the bucket of its *)
(* Start leaves LineItems and TimePts unchanged.                           *)
(***************************************************************************)
C3_DuplicateNoOp ==
    [][(/\ Len(calls') = Len(calls) + 1
        /\ LET l == calls'[Len(calls')]
           IN  /\ l.Start \in DOMAIN LineItems
               /\ \E i \in 1..Len(LineItems[l.Start]) :
                      LineItems[l.Start][i].UID = l.UID)
       => (LineItems' = LineItems /\ TimePts' = TimePts)]_vars

\* The last call repeated the (UID, Start) of an earlier call.
C3_Witness ==
    /\ Len(calls) >= 2
    /\ Len(calls) \notin FirstCalls
    /\ Len(TimePts) >= 1

(***************************************************************************)
(* C4.  Each value of the map GroupBy returns is the sum of UnblendedCost  *)
(* over the items of FilterByTime(s, e) that have that composite key and a *)
(* strictly positive UnblendedCost.                                        *)
(***************************************************************************)
C4_GroupSum ==
    out.op = "GroupBy" =>
        \A key \in DOMAIN out.val :
            out.val[key] =
                SumCost(SelectSeq(FilterByTime(Report, out.s, out.e),
                                  LAMBDA item :
                                      /\ CompositeKey(item, out.fields) = key
                                      /\ item.UnblendedCost > 0))

\* Two items were summed under one key while another key has its own entry.
C4_Witness ==
    /\ out.op = "GroupBy"
    /\ Cardinality(DOMAIN out.val) >= 2
    /\ \E key \in DOMAIN out.val :
           \E a \in Stored, b \in Stored :
               /\ a # b
               /\ a.UnblendedCost > 0 /\ b.UnblendedCost > 0
               /\ out.val[key] = a.UnblendedCost + b.UnblendedCost
               /\ CompositeKey(a, out.fields) = key
               /\ CompositeKey(b, out.fields) = key

(***************************************************************************)
(* C5.  The store holds exactly the first item ingested for each distinct  *)
(* (UID, Start) pair, each in the bucket of its own Start, once.           *)
(***************************************************************************)
C5_FirstOfEachPair ==
    /\ Stored = {calls[i] : i \in FirstCalls}
    /\ StoredCount = Cardinality(FirstCalls)
    /\ \A k \in DOMAIN LineItems :
           \A i \in 1..Len(LineItems[k]) : LineItems[k][i].Start = k

\* An item joined an existing bucket and its UID is also stored under
\* another Start.
C5_Witness ==
    /\ \E k \in DOMAIN LineItems : Len(LineItems[k]) >= 2
    /\ \E a \in Stored, b \in Stored : a.UID = b.UID /\ a.Start # b.Start
    /\ Len(calls) = 3
    /\ calls[3].Start = calls[1].Start

(***************************************************************************)
(* C6.  For items decoded from rows and ingested, GroupBy with a single    *)
(* recognised field name groups the items by the value the row supplied    *)
(* for that column: every ingested row with a positive cost that the       *)
(* window selects has an entry under its own value of the column.          *)
(***************************************************************************)
C6_GroupsByRowValue ==
    out.op = "GroupBy" =>
        \A field \in RecognizedFields :
            \A i \in 1..Len(calls) :
                (/\ calls[i] \in Range(FilterByTime(Report, out.s, out.e))
                 /\ calls[i].UnblendedCost > 0)
                => RowValue(scanned[i], field)
                       \in DOMAIN GroupBy(Report, <<field>>, out.s, out.e)

(***************************************************************************)
(* C7.  A key is in the map GroupBy returns iff some item of               *)
(* FilterByTime(s, e) has that composite key and a strictly positive       *)
(* UnblendedCost; no value of the map is 0 or less.                        *)
(***************************************************************************)
C7_PositiveOnly ==
    out.op = "GroupBy" =>
        LET items == Range(FilterByTime(Report, out.s, out.e))
            keys  == (DOMAIN out.val)
                     \cup {CompositeKey(item, out.fields) : item \in items}
        IN  /\ \A key \in keys :
                   key \in DOMAIN out.val <=>
                       \E item \in items :
                           /\ CompositeKey(item, out.fields) = key
                           /\ item.UnblendedCost > 0
            /\ \A key \in DOMAIN out.val : out.val[key] > 0

\* The window selects an item of cost 0 and one of negative cost whose keys
\* have no entry, next to an entry of another key.
C7_Witness ==
    /\ out.op = "GroupBy"
    /\ DOMAIN out.val # {}
    /\ \E a \in Range(FilterByTime(Report, out.s, out.e)) :
           /\ a.UnblendedCost = 0
           /\ CompositeKey(a, out.fields) \notin DOMAIN out.val
    /\ \E b \in Range(FilterByTime(Report, out.s, out.e)) :
           /\ b.UnblendedCost < 0
           /\ CompositeKey(b, out.fields) \notin DOMAIN out.val

(***************************************************************************)
(* C8.  No bucket of LineItems holds two items with the same UID.          *)
(***************************************************************************)
C8_UniqueUIDPerBucket ==
    \A k \in DOMAIN LineItems :
        \A i \in 1..Len(LineItems[k]), j \in 1..Len(LineItems[k]) :
            i # j => LineItems[k][i].UID # LineItems[k][j].UID

\* A bucket of two items was offered a third item, of different contents,
\* with the UID of its first item.
C8_Witness ==
    /\ Len(calls) = 3
    /\ calls[1].Start = calls[2].Start
    /\ calls[1].UID # calls[2].UID
    /\ calls[3].Start = calls[1].Start
    /\ calls[3].UID = calls[1].UID
    /\ calls[3] # calls[1]

(***************************************************************************)
(* C9.  GroupBy(fields, s, e) equals GroupBy of the list with every        *)
(* unrecognised name removed: an unrecognised name adds no segment and no  *)
(* separator to the composite key.                                         *)
(***************************************************************************)
C9_UnrecognizedIgnored ==
    out.op = "GroupBy" =>
        out.val = GroupBy(Report,
                          SelectSeq(out.fields, LAMBDA f : f \in RecognizedFields),
                          out.s, out.e)

\* A query with unrecognised names returned two entries.
C9_Witness ==
    /\ out.op = "GroupBy"
    /\ \E i \in 1..Len(out.fields) : out.fields[i] \notin RecognizedFields
    /\ Cardinality(DOMAIN out.val) >= 2

(***************************************************************************)
(* C10.  In the sequence FilterByTime returns, an item with an earlier     *)
(* Start precedes an item with a later Start, and items with the same      *)
(* Start appear in the order in which they were ingested.                  *)
(***************************************************************************)
C10_ResultOrder ==
    out.op = "FilterByTime" =>
        \A i \in 1..Len(out.val), j \in 1..Len(out.val) :
            /\ out.val[i].Start < out.val[j].Start => i < j
            /\ (/\ out.val[i].Start = out.val[j].Start
                /\ CallIndex(out.val[i]) < CallIndex(out.val[j])) => i < j

\* The result holds two items of one Start and one of an earlier Start that
\* was ingested last.
C10_Witness ==
    /\ out.op = "FilterByTime"
    /\ Len(out.val) = 3
    /\ Len(calls) = 3
    /\ calls[1].Start = calls[2].Start
    /\ calls[3].Start < calls[1].Start

C12_NumberErrors ==
    out.op = "NewLineItem" =>
        LET row == scanned[1]
            strict  == {"lineItem/BlendedCost", "lineItem/BlendedRate",
                        "lineItem/UnblendedCost"}
            lenient == {"lineItem/NormalizationFactor", "lineItem/UnblendedRate"}
            failed  == err # "" /\ out.val = <<>>
        IN  /\ (\E c \in strict : row[c] \notin ValidNumbers) => failed
            /\ (\E c \in lenient : row[c] \in InvalidNumbers) => failed
            /\ (/\ row["identity/TimeInterval"] = Stamp(0) \o <<"/">> \o Stamp(1)
                /\ \A c \in strict : row[c] \in ValidNumbers
                /\ \A c \in lenient : row[c] \in ValidNumbers \cup {<<>>})
               => /\ err = "" /\ out.val # <<>>
                  /\ row["lineItem/NormalizationFactor"] = <<>>
                         => out.val[1].NormalizationFactor = 0
                  /\ row["lineItem/UnblendedRate"] = <<>>
                         => out.val[1].UnblendedRate = 0

\* An item was returned for a row whose normalizationFactor and
\* unblendedRate are both empty.
C12_Witness ==
    /\ out.op = "NewLineItem"
    /\ scanned[1]["lineItem/NormalizationFactor"] = <<>>
    /\ scanned[1]["lineItem/UnblendedRate"] = <<>>
    /\ out.val # <<>>
    /\ err = ""

(***************************************************************************)
(* C14.  NewLineItem returns an error and no item when the interval text   *)
(* does not split on "/" into exactly two parts, and when either part is   *)
(* no timestamp; an item is returned only when both parts parse, with      *)
(* Start set from the first part and End from the second.                  *)
(***************************************************************************)
C14_IntervalErrors ==
    out.op = "NewLineItem" =>
        LET ti     == scanned[1]["identity/TimeInterval"]
            seps   == {i \in 1..Len(ti) : ti[i] = "/"}
            at     == CHOOSE i \in seps : TRUE
            first  == SubSeq(ti, 1, at - 1)
            second == SubSeq(ti, at + 1, Len(ti))
            failed == err # "" /\ out.val = <<>>
        IN  /\ Cardinality(seps) # 1 => failed
            /\ (Cardinality(seps) = 1
                  /\ (first \notin ValidStamps \/ second \notin ValidStamps))
               => failed
            /\ out.val # <<>> =>
                  /\ Cardinality(seps) = 1
                  /\ first \in ValidStamps /\ second \in ValidStamps
                  /\ out.val[1].Start = ParseTime(first).t
                  /\ out.val[1].End = ParseTime(second).t

\* An item was returned whose End, from the second part, precedes its
\* Start, from the first part.
C14_Witness ==
    /\ out.op = "NewLineItem"
    /\ out.val # <<>>
    /\ scanned[1]["identity/TimeInterval"] = Stamp(1) \o <<"/">> \o Stamp(0)
    /\ out.val[1].End < out.val[1].Start

(***************************************************************************)
(* C13.  If decoding of a row fails, NewReport stops at that row, ingests  *)
(* no later row and returns the error with no Report (nil), so that no     *)
(* query is ever made on a partially loaded store, wherever the bad row    *)
(* is in the input.                                                        *)
(***************************************************************************)
C13_FailFast ==
    /\ \A i \in 1..Len(scanned) :
           scanned[i] \in BadRows =>
               /\ i = Len(scanned)
               /\ Len(calls) = i - 1
               /\ err # ""
               /\ ret = "nil"
               /\ out.op = "none"
    /\ err # "" => scanned[Len(scanned)] \in BadRows

\* Two rows were ingested and the third failed to decode.
C13_Witness ==
    /\ Len(scanned) = 3
    /\ scanned[3] \in BadRows
    /\ Len(TimePts) = 2
    /\ ret = "nil"

\* C15: in the earlier variant, a call of AddLineItemID with an item whose
\* Start is already a key of LineItemIDs and whose UID no member of that bucket
\* has appends the item to the bucket: afterwards the bucket is the old one
\* followed by the item.
C15_AppendsToBucket ==
    [][(Len(calls') = Len(calls) + 1) =>
         LET l == calls'[Len(calls')]
         IN  (/\ l.Start \in DOMAIN LineItems
              /\ \A n \in 1..Len(LineItems[l.Start]) :
                     LineItems[l.Start][n].UID # l.UID)
             => LineItems'[l.Start] = Append(LineItems[l.Start], l)]_vars

\* TimePts lists the keys of LineItems, each once, in ascending order.
IsSortedKeySet ==
    /\ Range(TimePts) = DOMAIN LineItems
    /\ \A i \in 1..Len(TimePts), k \in 1..Len(TimePts) :
           i < k => TimePts[i] < TimePts[k]

\* C16: AddLineItem is not atomic with respect to the index: at every
\* position of a call for a new Start between the write of the bucket and the
\* placing of l.Start in TimePts (the placeholder appended or not, the shift
\* done or not), TimePts is not the sorted key set of LineItems; between the
\* calls it is, and a finished call leaves the report AddLineItem computes.
\* A query in such a position can return what it returns neither before nor
\* after the ingestion (C16_Witness).
C16_NotAtomic ==
    /\ frame.at # "idle" =>
           /\ frame.l.Start \notin DOMAIN frame.entry.LineItems
           /\ LineItems = Put(frame.entry.LineItems, frame.l.Start, <<frame.l>>)
           /\ frame.l.Start \notin Range(TimePts)
           /\ ~IsSortedKeySet
    /\ frame.at = "idle" =>
           /\ IsSortedKeySet
           /\ frame # Idle => Report = AddLineItem(frame.entry, frame.l)

\* A call for a new Start has shifted the time points and not yet placed
\* l.Start; the query ran in this position and its result, which holds an
\* item twice, is neither the result on the report at the entry of the call
\* nor the result on the report the call leaves.
C16_Witness ==
    /\ frame.at = "copied"
    /\ ~IsSortedKeySet
    /\ out.op = "FilterByTime"
    /\ out.at = "copied"
    /\ out.n = Len(calls)
    /\ out.val = FilterByTime(Report, out.s, out.e)
    /\ out.val # FilterByTime(frame.entry, out.s, out.e)
    /\ out.val # FilterByTime(AddLineItem(frame.entry, frame.l), out.s, out.e)
    /\ \E a \in 1..Len(out.val), b \in 1..Len(out.val) :
           a # b /\ out.val[a] = out.val[b]

\* The items that contribute to the result of the query in out: the filtered
\* items of positive cost.
Contributing ==
    {item \in Range(FilterByTime(Report, out.s, out.e)) : item.UnblendedCost > 0}

\* The items agree on the value of every field the query names.
SameValues(a, b) ==
    \A i \in 1..Len(out.fields) :
        NamedValue(a, out.fields[i]) = NamedValue(b, out.fields[i])

\* A value of a field the query names contains the separator "_".
HasSeparator(item) ==
    \E i \in 1..Len(out.fields) : "_" \in Range(NamedValue(item, out.fields[i]))

AllRecognized == \A i \in 1..Len(out.fields) : out.fields[i] \in RecognizedFields

\* C17 as stated: when every name in fields is recognised, two items are
\* accumulated into the same entry of the result only if they agree on the
\* value of every named field, whatever the values are.
C17_DistinctTuplesDistinctKeys ==
    (out.op = "GroupBy" /\ AllRecognized) =>
        \A a \in Contributing, b \in Contributing :
            GroupKey(a, out.fields) = GroupKey(b, out.fields) => SameValues(a, b)

\* C17 amended: when every name in fields is recognised, two items are
\* accumulated into the same entry only if they agree on the value of every
\* named field, provided that fields names one field or that no named value
\* of either item contains "_"; empty values do no harm.
C17_DistinctUnlessSeparator ==
    (out.op = "GroupBy" /\ AllRecognized) =>
        \A a \in Contributing, b \in Contributing :
            (/\ GroupKey(a, out.fields) = GroupKey(b, out.fields)
             /\ Len(out.fields) <= 1 \/ (~HasSeparator(a) /\ ~HasSeparator(b)))
            => SameValues(a, b)

\* A query by all eight names: two contributing items without "_" in their
\* values, with an empty value among them, differ in a value and have got
\* two entries.
C17_Witness ==
    /\ out.op = "GroupBy"
    /\ AllRecognized
    /\ Len(out.fields) = 8
    /\ \E a \in Contributing, b \in Contributing :
          /\ ~HasSeparator(a) /\ ~HasSeparator(b)
          /\ ~SameValues(a, b)
          /\ NamedValue(a, "lineItem/TaxType") = <<>>
          /\ GroupKey(a, out.fields) # GroupKey(b, out.fields)
          /\ {GroupKey(a, out.fields), GroupKey(b, out.fields)}
                 \subseteq DOMAIN out.val

====
